---- MODULE Spec2Model ----
(***************************************************************************)
(* pluton: discovery of Looking Glass displays over HID and the paged      *)
(* read of their calibration document (src/src/lib.rs).                    *)
(*                                                                         *)
(* The model follows the call tree                                         *)
(*   LookingGlass::findall -> get_json_string -> hid_query -> hid_multiread*)
(*   LookingGlass::findall -> json_to_glass                                *)
(* one step per transport call or decision of the code, with the device    *)
(* and its response channel as the environment.                            *)
(*                                                                         *)
(* Bytes are naturals below 256, buffers are sequences of bytes.           *)
(* The two external libraries are modelled at their interface:             *)
(*   - hid: init / find / serial_number / open / blocking / feature().send *)
(*     / data().read, each of which may fail;                              *)
(*   - serde_json: the JSON grammar is abstracted to a flat key/value      *)
(*     text of 3-byte fields <<key, kind, value>>; what the derived        *)
(*     Deserialize of ConfigJSON checks (every field present once, with    *)
(*     the right type, unknown fields ignored) is kept.                    *)
(***************************************************************************)
EXTENDS Integers, Sequences, FiniteSets, TLC

(***************************************************************************)
(* Bounds of the model                                                     *)
(***************************************************************************)
\* candidates hid_manager.find may yield in one run of findall
MaxCandidates == 2

(***************************************************************************)
(* Program constants                                                       *)
(***************************************************************************)
\* "Data is organised in 64-byte pages": json.len() / 64
PageSize == 64
\* buf.resize(68, 0)
FrameSize == 68
\* this_read.resize(128, 0)
ReadBufSize == 128
\* "we only get 64-byte results from read()"
ReportSize == 64
\* for i in 0..4 / json_size_raw[4..] / buf.len() <= 4 / split_to(4)
HeaderLen == 4

(***************************************************************************)
(* Bytes and buffers                                                       *)
(***************************************************************************)
Byte == 0..255

Min(a, b) == IF a < b THEN a ELSE b

\* &s[..n] for n <= len, and Vec::truncate(n)
Take(s, n) == SubSeq(s, 1, Min(n, Len(s)))

\* &s[n..]
Drop(s, n) == SubSeq(s, n + 1, Len(s))

Repeat(b, n) == [i \in 1..n |-> b]

\* (addr>>8 & 0xff) as u8
AddrHi(a) == (a \div 256) % 256

\* (addr & 0xFF) as u8
AddrLo(a) == a % 256

\* let confirm = [0, 0, (addr>>8 & 0xff) as u8, (addr & 0xFF) as u8];
Confirm(a) == <<0, 0, AddrHi(a), AddrLo(a)>>

\* mutant of RequestFrame: the address is put low byte first
RequestFrame_LittleEndian(a) ==
    <<0, 0>> \o <<a % 256, (a \div 256) % 256>> \o Repeat(0, FrameSize - 4)

\* put_u16_be(0); put_u16_be(addr); resize(68, 0)
RequestFrame(a) ==
    <<0, 0>> \o <<(a \div 256) % 256, a % 256>> \o Repeat(0, FrameSize - 4)

\* the big-endian length the device keeps in front of the document
BE32(n) ==
    <<(n \div 16777216) % 256, (n \div 65536) % 256, (n \div 256) % 256, n % 256>>

\* json_size <<= 8; json_size += json_size_raw[i]   for i in 0..4
JsonSize(raw) == ((raw[1] * 256 + raw[2]) * 256 + raw[3]) * 256 + raw[4]

\* (json.len() / 64) as u16
LastPage(len) == (len \div PageSize) % 65536

(***************************************************************************)
(* str::from_utf8: the strict validator.  Utf8Len(s, i) is the length of   *)
(* the well-formed sequence that starts at s[i], or 0 when there is none.  *)
(***************************************************************************)
IsCont(s, i) == i <= Len(s) /\ s[i] >= 128 /\ s[i] <= 191

Utf8Len(s, i) ==
    LET b == s[i] IN
    IF b < 128 THEN 1
    ELSE IF b >= 194 /\ b <= 223
         THEN (IF IsCont(s, i + 1) THEN 2 ELSE 0)
    ELSE IF b >= 224 /\ b <= 239
         THEN (IF /\ IsCont(s, i + 1) /\ IsCont(s, i + 2)
                  /\ (b = 224 => s[i + 1] >= 160)
                  /\ (b = 237 => s[i + 1] <= 159)
               THEN 3 ELSE 0)
    ELSE IF b >= 240 /\ b <= 244
         THEN (IF /\ IsCont(s, i + 1) /\ IsCont(s, i + 2) /\ IsCont(s, i + 3)
                  /\ (b = 240 => s[i + 1] >= 144)
                  /\ (b = 244 => s[i + 1] <= 143)
               THEN 4 ELSE 0)
    ELSE 0

\* s[i] is a continuation byte of a well-formed sequence that starts before it
Utf8Covered(s, i) ==
    \E j \in 1..(i - 1) : i - j <= 3 /\ s[j] >= 192 /\ Utf8Len(s, j) > i - j

\* Ok of str::from_utf8: s is a run of well-formed sequences, that is, every
\* byte starts one or continues one
ValidUtf8(s) ==
    \A i \in 1..Len(s) :
        IF s[i] >= 128 /\ s[i] <= 191 THEN Utf8Covered(s, i) ELSE Utf8Len(s, i) > 0

\* match str::from_utf8(&json)
from_utf8(s) == IF ValidUtf8(s) THEN "Ok" ELSE "Err"

(***************************************************************************)
(* The configuration document.  A field is three bytes <<key, kind, v>>.   *)
(***************************************************************************)
KindString == 1
KindValue  == 2

K_configVersion == 1
K_serial        == 2
K_pitch         == 3
K_slope         == 4
K_center        == 5
K_viewCone      == 6
K_invView       == 7
K_verticalAngle == 8
K_DPI           == 9
K_screenW       == 10
K_screenH       == 11
K_flipImageX    == 12
K_flipImageY    == 13
K_flipSubp      == 14

\* struct ConfigJSON: the two String fields and the twelve JSONValueMap fields
StringKeys == {K_configVersion, K_serial}
ValueKeys  == 3..14
ConfigKeys == StringKeys \cup ValueKeys

\* the byte that stands for the version string "1.0"
V_1_0 == 10
\* a byte that stands for another version string, "2.0"
V_2_0 == V_1_0 + 10

\* a number is kept in halves, so that 0.5 steps and negative values exist:
\* the byte v stands for (v - 64) / 2
NumOffset == 64
HalfOf(v) == v - NumOffset

\* mutant of AsU32: to the nearest integer instead of toward zero
AsU32_Rounds(h) == IF h < 0 THEN 0 ELSE (h + 1) \div 2

\* `as u32` on an f32: toward zero, and saturating: a negative value becomes
\* 0 (the numbers of the model stay far below the upper end, 2^32 - 1)
AsU32(h) == IF h < 0 THEN 0 ELSE h \div 2

FieldCount(text) == Len(text) \div 3
FieldKey(text, j)  == text[3 * j - 2]
FieldKind(text, j) == text[3 * j - 1]
FieldVal(text, j)  == text[3 * j]

\* the text is a well-formed document at all
Syntactic(text) ==
    /\ Len(text) > 0
    /\ Len(text) % 3 = 0
    /\ \A j \in 1..FieldCount(text) : FieldKind(text, j) \in {KindString, KindValue}

FieldsOf(text, k) == {j \in 1..FieldCount(text) : FieldKey(text, j) = k}

KindOf(k) == IF k \in StringKeys THEN KindString ELSE KindValue

\* serde_json::from_str::<ConfigJSON>: Ok exactly when every field of the
\* struct occurs once with its type; fields the struct does not name are skipped
Deserializes(text) ==
    /\ Syntactic(text)
    /\ \A k \in ConfigKeys :
          /\ Cardinality(FieldsOf(text, k)) = 1
          /\ \A j \in FieldsOf(text, k) : FieldKind(text, j) = KindOf(k)

Get(text, k) == FieldVal(text, CHOOSE j \in FieldsOf(text, k) : TRUE)

\* enum Error { HIDError(String), ParseError(String) } and Ok(LookingGlass)
OkGlass(g)      == [tag |-> "Ok", glass |-> g]
HIDError(m)     == [tag |-> "HIDError", msg |-> m]
ParseError(m)   == [tag |-> "ParseError", msg |-> m]

\* Ok(LookingGlass { serial, pitch, slope, center, dpi, screen_w, screen_h })
Project(text) ==
    [serial   |-> Get(text, K_serial),
     pitch    |-> HalfOf(Get(text, K_pitch)),
     slope    |-> HalfOf(Get(text, K_slope)),
     center   |-> HalfOf(Get(text, K_center)),
     dpi      |-> HalfOf(Get(text, K_DPI)),
     screen_w |-> AsU32(HalfOf(Get(text, K_screenW))),
     screen_h |-> AsU32(HalfOf(Get(text, K_screenH)))]

\* a message: its fixed words and the value formatted into it (NoArg: none)
NoArg == 0 - 1
Msg(what, arg) == [what |-> what, arg |-> arg]

\* mutant of VersionMsg: the message of the schema-parse error is reused
VersionMsg_AsSchema(v) == Msg("Error parsing JSON", NoArg)

\* format!("Don't know how to read config version {}...", config.configVersion)
VersionMsg(v) == Msg("Don't know how to read config version", v)

\* format!("Error parsing JSON: {}", error.to_string())
SchemaMsg == Msg("Error parsing JSON", NoArg)

\* mutant of VersionBranch: the version is not looked at
VersionBranch_AnyVersion(text) == OkGlass(Project(text))

\* the branch of json_to_glass taken when from_str succeeded
VersionBranch(text) ==
    IF Get(text, K_configVersion) = V_1_0
    THEN OkGlass(Project(text))
    ELSE ParseError(VersionMsg(Get(text, K_configVersion)))

\* fn json_to_glass(json_string: String) -> Result<LookingGlass>
json_to_glass(text) ==
    IF Deserializes(text)
    THEN VersionBranch(text)
    ELSE ParseError(SchemaMsg)

(***************************************************************************)
(* hid::Error and its Display                                              *)
(***************************************************************************)
HidErr(kind) == [kind |-> kind]

\* error.to_string() of a hid::Error
HidToString(e) == Msg(e.kind, NoArg)

\* hid::Result<String> of get_json_string
RetOk(str)  == [ok |-> TRUE, str |-> str, err |-> HidErr("")]
RetErr(e)   == [ok |-> FALSE, str |-> <<>>, err |-> e]
NoRet       == [ok |-> FALSE, str |-> <<>>, err |-> HidErr("")]

(***************************************************************************)
(* The device: an EEPROM of pages behind the HID transport.  A device      *)
(* answers a request frame with the first four bytes of the frame followed *)
(* by the page at the address the frame names; the transport hands the     *)
(* answer over in reports of at most ReportSize bytes.                     *)
(***************************************************************************)
\* what an EEPROM cell holds behind the document ("uninitialised garbage")
Erased == 255

RECURSIVE Flatten(_)
Flatten(ss) == IF ss = <<>> THEN <<>> ELSE Head(ss) \o Flatten(Tail(ss))

\* the twelve { "value": number } fields; field k holds k halves
ValueFields == Flatten([i \in 1..12 |-> <<i + 2, KindValue, NumOffset + i + 2>>])

SerialByte == 97

DocWith(version) ==
    <<K_configVersion, KindString, version>>
        \o <<K_serial, KindString, SerialByte>> \o ValueFields

DocV1 == DocWith(V_1_0)
DocV2 == DocWith(V_2_0)
DocNoSerial == <<K_configVersion, KindString, V_1_0>> \o ValueFields
DocSerialNumber ==
    <<K_configVersion, KindString, V_1_0>>
        \o <<K_serial, KindValue, SerialByte>> \o ValueFields
\* a valid document followed by nine fields the schema does not name
DocLong == DocV1 \o Flatten([i \in 1..9 |-> <<20 + i, KindString, 48 + i>>])
\* a document whose serial holds a byte that is not text
DocBadUtf8 ==
    <<K_configVersion, KindString, V_1_0>>
        \o <<K_serial, KindString, Erased>> \o ValueFields

\* pages of PageSize bytes: the length, the document, then erased cells
Image(doc, n, npages) ==
    LET raw == BE32(n) \o doc
    IN  raw \o Repeat(Erased, npages * PageSize - Len(raw))

PagesOf(img) ==
    [k \in 1..(Len(img) \div PageSize) |->
        SubSeq(img, (k - 1) * PageSize + 1, k * PageSize)]

\* a device of the real geometry that declares length n for doc
RealDevice(doc, n, npages) ==
    [pages |-> PagesOf(Image(doc, n, npages)), skew |-> 0, doc |-> doc]

\* the payload of page a; an address behind the last page has none
PageAt(dev, a) == IF a + 1 <= Len(dev.pages) THEN dev.pages[a + 1] ELSE <<>>

\* the device's answer to a request frame
Reply(dev, f) ==
    <<f[1], f[2], f[3], (f[4] + dev.skew) % 256>>
        \o PageAt(dev, f[3] * 256 + f[4])

\* the reports an answer is handed over in
RECURSIVE Chunks(_)
Chunks(bytes) ==
    IF Len(bytes) = 0 THEN <<>>
    ELSE <<Take(bytes, ReportSize)>> \o Chunks(Drop(bytes, ReportSize))

Devices ==
    { RealDevice(DocV1, Len(DocV1), 1),
      RealDevice(DocLong, Len(DocLong), 2),
      RealDevice(DocV2, Len(DocV2), 1),
      RealDevice(DocNoSerial, Len(DocNoSerial), 1),
      RealDevice(DocSerialNumber, Len(DocSerialNumber), 1),
      RealDevice(DocBadUtf8, Len(DocBadUtf8), 1),
      RealDevice(<<>>, 0, 1),
      \* declares more than it holds
      RealDevice(DocV1, 3 * PageSize, 2),
      \* answers page 0 with two bytes only
      [pages |-> << <<0, 0>> >>, skew |-> 0, doc |-> <<>>],
      \* echoes another address than the one asked for
      [pages |-> PagesOf(Image(DocV1, Len(DocV1), 1)), skew |-> 1, doc |-> DocV1] }

\* a candidate as hid_manager.find yields it: the device, whether its
\* reports always arrive before a read times out, and what an earlier user of
\* the device left behind: an answer to a page-0 request that is already
\* queued on the channel, or still on its way
Candidate(dev, timely, stale) == [dev |-> dev, timely |-> timely, stale |-> stale]

Candidates ==
    { Candidate(d, TRUE, s) : d \in Devices, s \in {"none", "queued"} }
    \cup
    { Candidate(d, FALSE, s) : d \in Devices, s \in {"none", "late"} }

NoCandidate == Candidate([pages |-> <<>>, skew |-> 0, doc |-> <<>>], TRUE, "none")

StaleReports(c) == Chunks(Reply(c.dev, RequestFrame(0)))


(***************************************************************************)
(* State                                                                   *)
(***************************************************************************)
VARIABLES
    pc,         \* where the program stands
    cur,        \* findall: candidates the iterator has yielded so far
    cand,       \* findall: the candidate being processed
    glasses,    \* findall: the Vec of outcomes
    handle,     \* get_json_string: the open handles (candidate numbers)
    addr,       \* hid_query: the page address asked for
    phase,      \* get_json_string: "first" (page 0) or "more" (the loop)
    ret_buf,    \* hid_multiread: the bytes read so far
    buf,        \* hid_query: the request, then the response
    count,      \* hid_query: the count feature().send reported
    payload,    \* hid_query: the value returned (response without header)
    json_size,  \* get_json_string: the declared length
    json,       \* get_json_string: the bytes assembled so far
    json_len,   \* get_json_string: json.len()
    slice0,     \* history: the length of the slice kept from page 0
    ret,        \* get_json_string: the value returned
    channel,    \* device: reports ready to be read
    inflight,   \* device: reports not yet on the channel
    frame,      \* device: the last buffer handed to feature().send
    nframes,    \* device: calls of feature().send, per candidate
    reply,      \* history: the device's answer to the last request
    failed,     \* history: the step that failed for this candidate
    log         \* history: per outcome, its candidate, failed step and text

enumVars  == <<cur, cand, glasses, log>>
queryVars == <<addr, phase, ret_buf, buf, count, payload>>
jsonVars  == <<json_size, json, json_len, slice0>>
devVars   == <<channel, inflight, frame, nframes, reply>>
vars == <<pc, cur, cand, glasses, handle, addr, phase, ret_buf, buf, count,
          payload, json_size, json, json_len, slice0, ret, channel, inflight,
          frame, nframes, reply, failed, log>>

\* the locals of get_json_string and hid_query, out of scope
NoLocals ==
    /\ addr' = 0
    /\ phase' = ""
    /\ ret_buf' = <<>>
    /\ buf' = <<>>
    /\ count' = 0
    /\ payload' = <<>>
    /\ json_size' = 0
    /\ json' = <<>>
    /\ json_len' = 0
    /\ slice0' = 0

\* mutant of Closed: the handle stays open when get_json_string returns
Closed_Leaks ==
    /\ handle' = handle
    /\ channel' = <<>>
    /\ inflight' = <<>>
    /\ reply' = <<>>

\* the handle is dropped: the device and its channel are out of reach
Closed ==
    /\ handle' = {}
    /\ channel' = <<>>
    /\ inflight' = <<>>
    /\ reply' = <<>>

Init ==
    /\ pc = "init"
    /\ cur = 0
    /\ cand = NoCandidate
    /\ glasses = <<>>
    /\ handle = {}
    /\ addr = 0
    /\ phase = ""
    /\ ret_buf = <<>>
    /\ buf = <<>>
    /\ count = 0
    /\ payload = <<>>
    /\ json_size = 0
    /\ json = <<>>
    /\ json_len = 0
    /\ slice0 = 0
    /\ ret = NoRet
    /\ channel = <<>>
    /\ inflight = <<>>
    /\ frame = <<>>
    /\ nframes = <<>>
    /\ reply = <<>>
    /\ failed = "none"
    /\ log = <<>>

(***************************************************************************)
(* LookingGlass::findall                                                   *)
(***************************************************************************)
\* glasses.push(outcome), and on to the next candidate
Push(outcome, step) ==
    /\ glasses' = Append(glasses, outcome)
    /\ log' = Append(log, [cand |-> cur, failed |-> step,
                           text |-> IF ret.ok THEN ret.str ELSE <<>>])
    /\ failed' = "none"
    /\ cand' = NoCandidate
    /\ ret' = NoRet
    /\ frame' = <<>>
    /\ pc' = "find"

\* hid::init() succeeded
hid_init_ok ==
    /\ pc = "init"
    /\ pc' = "find"
    /\ UNCHANGED <<enumVars, handle, queryVars, jsonVars, ret, devVars, failed>>

\* mutant of hid_init_err: the error is pushed and the enumeration goes on
hid_init_err_goes_on ==
    /\ pc = "init"
    /\ glasses' = Append(glasses, HIDError(HidToString(HidErr("Initialized"))))
    /\ log' = Append(log, [cand |-> 0, failed |-> "init", text |-> <<>>])
    /\ pc' = "find"
    /\ UNCHANGED <<cur, cand, handle, queryVars, jsonVars, ret, devVars, failed>>

\* hid::init() failed: one HIDError, and findall returns
hid_init_err ==
    /\ pc = "init"
    /\ glasses' = Append(glasses, HIDError(HidToString(HidErr("Initialized"))))
    /\ log' = Append(log, [cand |-> 0, failed |-> "init", text |-> <<>>])
    /\ pc' = "done"
    /\ UNCHANGED <<cur, cand, handle, queryVars, jsonVars, ret, devVars, failed>>

\* the iterator of hid_manager.find yields a candidate
find_next ==
    /\ pc = "find"
    /\ cur < MaxCandidates
    /\ \E c \in Candidates : cand' = c
    /\ cur' = cur + 1
    /\ nframes' = Append(nframes, 0)
    /\ failed' = "none"
    /\ pc' = "serial"
    /\ UNCHANGED <<glasses, log, handle, queryVars, jsonVars, ret,
                   channel, inflight, frame, reply>>

\* the iterator is exhausted: findall returns glasses
find_end ==
    /\ pc = "find"
    /\ pc' = "done"
    /\ UNCHANGED <<enumVars, handle, queryVars, jsonVars, ret, devVars, failed>>

\* candidate.serial_number() is None
serial_none ==
    /\ pc = "serial"
    /\ Push(HIDError(Msg("Error reading - may lack permissions?", NoArg)),
            "serial")
    /\ UNCHANGED <<cur, handle, queryVars, jsonVars, channel, inflight,
                   nframes, reply>>

\* candidate.serial_number() is Some: get_json_string(candidate) is called
serial_some ==
    /\ pc = "serial"
    /\ pc' = "open"
    /\ UNCHANGED <<enumVars, handle, queryVars, jsonVars, ret, devVars, failed>>

\* Err(error) => Err(Error::HIDError(error.to_string()))
ret_err ==
    /\ pc = "g_ret"
    /\ ~ret.ok
    /\ Push(HIDError(HidToString(ret.err)), failed)
    /\ UNCHANGED <<cur, handle, queryVars, jsonVars, channel, inflight,
                   nframes, reply>>

\* Ok(string) => json_to_glass(string)
decode ==
    /\ pc = "g_ret"
    /\ ret.ok
    /\ Push(json_to_glass(ret.str), failed)
    /\ UNCHANGED <<cur, handle, queryVars, jsonVars, channel, inflight,
                   nframes, reply>>

(***************************************************************************)
(* get_json_string and hid_query                                           *)
(***************************************************************************)
\* `?`: get_json_string returns Err(e); its locals and the handle are dropped
FailWith(step, e) ==
    /\ ret' = RetErr(e)
    /\ failed' = step
    /\ pc' = "g_ret"
    /\ NoLocals
    /\ Closed

\* candidate.open()? fails
open_err ==
    /\ pc = "open"
    /\ FailWith("open", HidErr("General"))
    /\ UNCHANGED <<enumVars, frame, nframes>>

\* candidate.open()? succeeds; the channel may hold what was left on it
open_ok ==
    /\ pc = "open"
    /\ handle' = handle \cup {cur}
    /\ channel' = IF cand.stale = "queued" THEN StaleReports(cand) ELSE <<>>
    /\ inflight' = IF cand.stale = "late" THEN StaleReports(cand) ELSE <<>>
    /\ pc' = "blocking"
    /\ UNCHANGED <<enumVars, queryVars, jsonVars, ret, frame, nframes, reply,
                   failed>>

\* handle.blocking(true)? fails
blocking_err ==
    /\ pc = "blocking"
    /\ FailWith("blocking", HidErr("General"))
    /\ UNCHANGED <<enumVars, frame, nframes>>

\* handle.blocking(true)? succeeds; hid_query(&mut handle, 0) is called
blocking_ok ==
    /\ pc = "blocking"
    /\ addr' = 0
    /\ phase' = "first"
    /\ pc' = "drain"
    /\ UNCHANGED <<enumVars, handle, ret_buf, buf, count, payload, jsonVars,
                   ret, devVars, failed>>

\* the device's transport puts the next report on the channel
deliver ==
    /\ handle # {}
    /\ inflight # <<>>
    /\ channel' = Append(channel, Head(inflight))
    /\ inflight' = Tail(inflight)
    /\ UNCHANGED <<pc, enumVars, handle, queryVars, jsonVars, ret, frame,
                   nframes, reply, failed>>

\* the transport hands over a report of no bytes while hid_multiread is
\* reading: the next read() returns Some(0)
deliver_empty ==
    /\ handle # {}
    /\ pc \in {"drain", "read"}
    /\ \A i \in 1..Len(channel) : channel[i] # <<>>
    /\ channel' = Append(channel, <<>>)
    /\ UNCHANGED <<pc, enumVars, handle, queryVars, jsonVars, ret, inflight,
                   frame, nframes, reply, failed>>

\* mutant of hid_multiread_some: a read of zero bytes ends the loop
hid_multiread_some_zero_ends ==
    /\ pc \in {"drain", "read"}
    /\ channel # <<>>
    /\ channel' = Tail(channel)
    /\ IF Head(channel) = <<>>
       THEN /\ buf' = (IF pc = "drain" THEN <<>> ELSE ret_buf)
            /\ ret_buf' = <<>>
            /\ pc' = IF pc = "drain" THEN "send" ELSE "confirm"
       ELSE /\ ret_buf' = ret_buf \o Take(Head(channel), ReadBufSize)
            /\ UNCHANGED <<pc, buf>>
    /\ UNCHANGED <<enumVars, handle, addr, phase, count, payload,
                   jsonVars, ret, inflight, frame, nframes, reply, failed>>

\* hid_multiread: read() returns Some(count): the report is appended
hid_multiread_some ==
    /\ pc \in {"drain", "read"}
    /\ channel # <<>>
    /\ ret_buf' = ret_buf \o Take(Head(channel), ReadBufSize)
    /\ channel' = Tail(channel)
    /\ UNCHANGED <<pc, enumVars, handle, addr, phase, buf, count, payload,
                   jsonVars, ret, inflight, frame, nframes, reply, failed>>

\* the value hid_query keeps of a finished hid_multiread: the drain's is
\* dropped ("hid_multiread(handle)?;"), the response's becomes buf
Kept(at, bytes) == IF at = "drain" THEN <<>> ELSE bytes

\* hid_multiread: read() returns None after the timeout: the loop breaks.
\* A device that is not timely may still have reports on their way.
hid_multiread_none ==
    /\ pc \in {"drain", "read"}
    /\ channel = <<>>
    /\ cand.timely => inflight = <<>>
    /\ buf' = Kept(pc, ret_buf)
    /\ ret_buf' = <<>>
    /\ pc' = IF pc = "drain" THEN "send" ELSE "confirm"
    /\ UNCHANGED <<enumVars, handle, addr, phase, count, payload, jsonVars,
                   ret, devVars, failed>>

\* mutant of hid_multiread_err: the error of a read is taken for "no data"
hid_multiread_err_ignored ==
    /\ pc \in {"drain", "read"}
    /\ buf' = (IF pc = "drain" THEN <<>> ELSE ret_buf)
    /\ ret_buf' = <<>>
    /\ pc' = IF pc = "drain" THEN "send" ELSE "confirm"
    /\ UNCHANGED <<enumVars, handle, addr, phase, count, payload, jsonVars,
                   ret, devVars, failed>>

\* hid_multiread: read()? fails
hid_multiread_err ==
    /\ pc \in {"drain", "read"}
    /\ FailWith(pc, HidErr("Read"))
    /\ UNCHANGED <<enumVars, frame, nframes>>

\* the counts a partial write may report
ShortCounts == {0, FrameSize - 1}

\* handle.feature().send(&buf)? writes the whole frame: the device answers
send_full ==
    /\ pc = "send"
    /\ frame' = RequestFrame(addr)
    /\ nframes' = [nframes EXCEPT ![cur] = @ + 1]
    /\ reply' = Reply(cand.dev, frame')
    /\ inflight' = inflight \o Chunks(reply')
    /\ buf' = frame'
    /\ count' = Len(frame')
    /\ pc' = "count"
    /\ UNCHANGED <<enumVars, handle, addr, phase, ret_buf, payload, jsonVars,
                   ret, channel, failed>>

\* handle.feature().send(&buf)? writes a part of the frame only: the device
\* has no request to answer
send_partial ==
    /\ pc = "send"
    /\ frame' = RequestFrame(addr)
    /\ nframes' = [nframes EXCEPT ![cur] = @ + 1]
    /\ buf' = frame'
    /\ \E n \in ShortCounts : count' = n
    /\ pc' = "count"
    /\ UNCHANGED <<enumVars, handle, addr, phase, ret_buf, payload, jsonVars,
                   ret, channel, inflight, reply, failed>>

\* handle.feature().send(&buf)? fails
send_err ==
    /\ pc = "send"
    /\ frame' = RequestFrame(addr)
    /\ nframes' = [nframes EXCEPT ![cur] = @ + 1]
    /\ FailWith("send", HidErr("Write"))
    /\ UNCHANGED enumVars

\* mutant of CountMismatch: only a write of nothing counts as a mismatch
CountMismatch_ZeroOnly(n, len) == n = 0

\* if count != buf.len()
CountMismatch(n, len) == n # len

\* return Err(hid::Error::Write)
count_mismatch ==
    /\ pc = "count"
    /\ CountMismatch(count, Len(buf))
    /\ FailWith("count", HidErr("Write"))
    /\ UNCHANGED <<enumVars, frame, nframes>>

\* the count is the frame's length: buf = hid_multiread(handle)? is called
count_ok ==
    /\ pc = "count"
    /\ ~CountMismatch(count, Len(buf))
    /\ pc' = "read"
    /\ UNCHANGED <<enumVars, handle, queryVars, count, jsonVars, ret, devVars,
                   failed>>

\* mutant of ConfirmFails: `<` for `<=`, a bare header passes
ConfirmFails_AcceptsBareHeader(a, b) ==
    Len(b) < HeaderLen \/ Take(b, HeaderLen) # Confirm(a)

\* mutant of ConfirmFails: the length of the response is not looked at
ConfirmFails_HeaderOnly(a, b) == Take(b, HeaderLen) # Confirm(a)

\* if buf.len() <= 4 || buf.split_to(4) != Bytes::from(&confirm[..])
ConfirmFails(a, b) == Len(b) <= HeaderLen \/ Take(b, HeaderLen) # Confirm(a)

\* mutant of confirm_fail: the request is sent again instead of returning
confirm_fail_retry ==
    /\ pc = "confirm"
    /\ ConfirmFails(addr, buf)
    /\ failed' = "confirm"
    /\ buf' = <<>>
    /\ pc' = "drain"
    /\ UNCHANGED <<enumVars, handle, addr, phase, ret_buf, count, payload,
                   jsonVars, ret, devVars>>

\* the confirmation fails: Err(hid::Error::Read)
confirm_fail ==
    /\ pc = "confirm"
    /\ ConfirmFails(addr, buf)
    /\ FailWith("confirm", HidErr("Read"))
    /\ UNCHANGED <<enumVars, frame, nframes>>

\* the confirmation holds: Ok(buf), buf without its first four bytes
confirm_ok ==
    /\ pc = "confirm"
    /\ ~ConfirmFails(addr, buf)
    /\ payload' = Drop(buf, HeaderLen)
    /\ buf' = <<>>
    /\ pc' = IF phase = "first" THEN "length" ELSE "append"
    /\ UNCHANGED <<enumVars, handle, addr, phase, ret_buf, count, jsonVars,
                   ret, devVars, failed>>

\* json_size from json_size_raw[0..4]; json = Vec::from(&json_size_raw[4..])
length_ok ==
    /\ pc = "length"
    /\ Len(payload) >= HeaderLen
    /\ json_size' = JsonSize(payload)
    /\ json' = Drop(payload, HeaderLen)
    /\ json_len' = Len(json')
    /\ slice0' = Len(json')
    /\ payload' = <<>>
    /\ pc' = "loop"
    /\ UNCHANGED <<enumVars, handle, addr, phase, ret_buf, buf, count, ret,
                   devVars, failed>>

\* json_size_raw[i] with i beyond the payload: index out of bounds, the
\* thread panics and findall never returns
length_panic ==
    /\ pc = "length"
    /\ Len(payload) < HeaderLen
    /\ pc' = "panic"
    /\ failed' = "length"
    /\ NoLocals
    /\ Closed
    /\ UNCHANGED <<enumVars, ret, frame, nframes>>

\* while json.len() < json_size
LoopContinues(len, size) == len < size

\* mutant of NextPage: the + 1 is forgotten
NextPage_NoIncrement(len) == LastPage(len)

\* let last_page = (json.len() / 64) as u16; last_page + 1
NextPage(len) == LastPage(len) + 1

\* last_page + 1 does not fit a u16
AddOverflows(len) == NextPage(len) > 65535

\* the loop goes on: hid_query(&mut handle, last_page + 1) is called
loop_more ==
    /\ pc = "loop"
    /\ LoopContinues(json_len, json_size)
    /\ ~AddOverflows(json_len)
    /\ addr' = NextPage(json_len)
    /\ phase' = "more"
    /\ pc' = "drain"
    /\ UNCHANGED <<enumVars, handle, ret_buf, buf, count, payload, jsonVars,
                   ret, devVars, failed>>

\* last_page + 1 overflows in a build with overflow checks (debug): the
\* thread panics
loop_overflow_panic ==
    /\ pc = "loop"
    /\ LoopContinues(json_len, json_size)
    /\ AddOverflows(json_len)
    /\ pc' = "panic"
    /\ failed' = "overflow"
    /\ NoLocals
    /\ Closed
    /\ UNCHANGED <<enumVars, ret, frame, nframes>>

\* last_page + 1 overflows in a build without overflow checks (release): the
\* sum wraps around and hid_query is called with it
loop_overflow_wrap ==
    /\ pc = "loop"
    /\ LoopContinues(json_len, json_size)
    /\ AddOverflows(json_len)
    /\ addr' = NextPage(json_len) % 65536
    /\ phase' = "more"
    /\ pc' = "drain"
    /\ UNCHANGED <<enumVars, handle, ret_buf, buf, count, payload, jsonVars,
                   ret, devVars, failed>>

\* json.extend_from_slice(&this_read)
append ==
    /\ pc = "append"
    /\ json' = json \o payload
    /\ json_len' = json_len + Len(payload)
    /\ payload' = <<>>
    /\ pc' = "loop"
    /\ UNCHANGED <<enumVars, handle, addr, phase, ret_buf, buf, count,
                   json_size, slice0, ret, devVars, failed>>

\* mutant of Truncated: the padding of the last page is kept
Truncated_Keeps(bytes, size) == bytes

\* json.truncate(json_size)
Truncated(bytes, size) == Take(bytes, size)

\* the loop ends: json.truncate(json_size)
truncate ==
    /\ pc = "loop"
    /\ ~LoopContinues(json_len, json_size)
    /\ json' = Truncated(json, json_size)
    /\ json_len' = Len(json')
    /\ pc' = "utf8"
    /\ UNCHANGED <<enumVars, handle, queryVars, json_size, slice0, ret, devVars,
                   failed>>

\* str::from_utf8(&json) is Ok: Ok(yay.to_string())
utf8_ok ==
    /\ pc = "utf8"
    /\ from_utf8(json) = "Ok"
    /\ ret' = RetOk(json)
    /\ pc' = "g_ret"
    /\ NoLocals
    /\ Closed
    /\ UNCHANGED <<enumVars, frame, nframes, failed>>

\* str::from_utf8(&json) is Err: Err(hid::Error::String(error.to_string()))
utf8_err ==
    /\ pc = "utf8"
    /\ from_utf8(json) = "Err"
    /\ FailWith("utf8", HidErr("String: invalid utf-8 sequence"))
    /\ UNCHANGED <<enumVars, frame, nframes>>

Next ==
    \/ hid_init_ok
    \/ hid_init_err
    \/ find_next
    \/ find_end
    \/ serial_none
    \/ serial_some
    \/ ret_err
    \/ decode
    \/ open_err
    \/ open_ok
    \/ blocking_err
    \/ blocking_ok
    \/ deliver
    \/ deliver_empty
    \/ hid_multiread_some
    \/ hid_multiread_none
    \/ hid_multiread_err
    \/ send_full
    \/ send_partial
    \/ send_err
    \/ count_mismatch
    \/ count_ok
    \/ confirm_fail
    \/ confirm_ok
    \/ length_ok
    \/ length_panic
    \/ loop_more
    \/ append
    \/ truncate
    \/ utf8_ok
    \/ utf8_err

Spec == Init /\ [][Next]_vars


(***************************************************************************)
(* hid_query's confirmation on its own: every sampled address with every   *)
(* sampled response, standing right after the response was read.           *)
(***************************************************************************)
AddrSamples == {0, 1, 255, 256, 257, 4660, 65535}

HeaderSamples(a) ==
    { <<x0, x1, x2, x3>> :
        x0 \in {0, 1}, x1 \in {0, 255},
        x2 \in {AddrHi(a), (AddrHi(a) + 1) % 256},
        x3 \in {AddrLo(a), (AddrLo(a) + 1) % 256} }
    \cup { <<0, 0, AddrLo(a), AddrHi(a)>> }

PayloadSamples == { <<>>, <<7>>, <<0, 0, 0, 5, 65>> }

ResponseSamples(a) ==
    { Take(h \o p, n) :
        h \in HeaderSamples(a), p \in PayloadSamples, n \in 0..(HeaderLen + 5) }

ConfirmCandidate == Candidate(RealDevice(DocV1, Len(DocV1), 1), TRUE, "none")

InitConfirm ==
    /\ pc = "confirm"
    /\ cur = 1
    /\ cand = ConfirmCandidate
    /\ glasses = <<>>
    /\ handle = {1}
    /\ addr \in AddrSamples
    /\ phase \in {"first", "more"}
    /\ ret_buf = <<>>
    /\ buf \in ResponseSamples(addr)
    /\ count = FrameSize
    /\ payload = <<>>
    /\ json_size = 0
    /\ json = <<>>
    /\ json_len = 0
    /\ slice0 = 0
    /\ ret = NoRet
    /\ channel = <<>>
    /\ inflight = <<>>
    /\ frame = RequestFrame(addr)
    /\ nframes = <<1>>
    /\ reply = buf
    /\ failed = "none"
    /\ log = <<>>

NextConfirm ==
    \/ confirm_fail
    \/ confirm_ok

SpecConfirm == InitConfirm /\ [][NextConfirm]_vars

(***************************************************************************)
(* get_json_string against a stub that serves a document split into pages  *)
(* at given points: the stub answers in time, echoes the address asked for *)
(* and nothing is left on its channel.                                     *)
(***************************************************************************)
\* a document of n bytes of text, no two neighbours alike
Filler(n) == [i \in 1..n |-> 32 + (i % 95)]

RoundTripLengths == {0, 1, 63, 64, 65, 1000}

\* the sizes of the slices: those of head, then tail for every further page
Split(head, tail) == [head |-> head, tail |-> tail]

RECURSIVE Slices(_, _, _)
Slices(doc, head, tail) ==
    IF doc = <<>> THEN <<>>
    ELSE LET n == IF head # <<>> THEN Head(head) ELSE tail
         IN  <<Take(doc, n)>>
                 \o Slices(Drop(doc, n),
                           IF head # <<>> THEN Tail(head) ELSE <<>>, tail)

\* page 0 holds the length and the first slice, page k the k-th further slice
StubPages(doc, sp) ==
    LET sl == Slices(doc, sp.head, sp.tail)
    IN  IF sl = <<>> THEN << BE32(0) >>
        ELSE << BE32(Len(doc)) \o Head(sl) >> \o Tail(sl)

StubDevice(doc, sp) == [pages |-> StubPages(doc, sp), skew |-> 0, doc |-> doc]

Splits ==
    { Split(<<60>>, 64),            \* the device's own geometry
      Split(<<50, 14, 66>>, 64),    \* split at bytes 50, 64 and 130
      Split(<<60>>, 63),
      Split(<<10>>, 10),
      Split(<<64>>, 64),
      Split(<<130>>, 64),
      Split(<<1>>, 200) }

\* a stub that holds one byte of the document in every page
BytePages(doc) ==
    IF doc = <<>> THEN << BE32(0) >>
    ELSE << BE32(Len(doc)) \o <<doc[1]>> >>
             \o [k \in 1..(Len(doc) - 1) |-> <<doc[k + 1]>>]

ByteDevice(doc) == [pages |-> BytePages(doc), skew |-> 0, doc |-> doc]

StubCandidates ==
    { Candidate(StubDevice(Filler(n), sp), TRUE, "none") :
        n \in RoundTripLengths, sp \in Splits }
    \cup
    { Candidate(ByteDevice(Filler(n)), TRUE, "none") : n \in RoundTripLengths }

InitRoundTrip ==
    /\ pc = "open"
    /\ cur = 1
    /\ cand \in StubCandidates
    /\ glasses = <<>>
    /\ handle = {}
    /\ addr = 0
    /\ phase = ""
    /\ ret_buf = <<>>
    /\ buf = <<>>
    /\ count = 0
    /\ payload = <<>>
    /\ json_size = 0
    /\ json = <<>>
    /\ json_len = 0
    /\ slice0 = 0
    /\ ret = NoRet
    /\ channel = <<>>
    /\ inflight = <<>>
    /\ frame = <<>>
    /\ nframes = <<0>>
    /\ reply = <<>>
    /\ failed = "none"
    /\ log = <<>>

NextRoundTrip ==
    \/ open_ok
    \/ blocking_ok
    \/ deliver
    \/ hid_multiread_some
    \/ hid_multiread_none
    \/ send_full
    \/ count_ok
    \/ confirm_fail
    \/ confirm_ok
    \/ length_ok
    \/ loop_more
    \/ append
    \/ truncate
    \/ utf8_ok

SpecRoundTrip == InitRoundTrip /\ [][NextRoundTrip]_vars

(***************************************************************************)
(* hid_query's request on its own: hid_query(handle, addr) for every u16   *)
(* address, standing right after the drain.  The bytes assembled before    *)
(* the call are left out of json; json_len is their number.                *)
(***************************************************************************)
\* addr: u16
Addresses == 0..65535

InitFrame ==
    /\ pc = "send"
    /\ cur = 1
    /\ cand = ConfirmCandidate
    /\ glasses = <<>>
    /\ handle = {1}
    /\ addr \in Addresses
    /\ phase = IF addr = 0 THEN "first" ELSE "more"
    /\ ret_buf = <<>>
    /\ buf = <<>>
    /\ count = 0
    /\ payload = <<>>
    /\ json_size = IF addr = 0 THEN 0 ELSE (addr - 1) * PageSize + 1
    /\ json = <<>>
    /\ json_len = IF addr = 0 THEN 0 ELSE (addr - 1) * PageSize
    /\ slice0 = 0
    /\ ret = NoRet
    /\ channel = <<>>
    /\ inflight = <<>>
    /\ frame = <<>>
    /\ nframes = <<0>>
    /\ reply = <<>>
    /\ failed = "none"
    /\ log = <<>>

NextFrame ==
    \/ send_full
    \/ send_partial
    \/ send_err

SpecFrame == InitFrame /\ [][NextFrame]_vars

(***************************************************************************)
(* json_to_glass on its own: findall holds the string get_json_string      *)
(* returned, for every document of a family that matches the schema.       *)
(***************************************************************************)
\* the numbers a field of the family may hold: -1.5 and 2.5, and for the two
\* integer fields also 0.5 and 3.0
FloatSamples == {NumOffset - 3, NumOffset + 5}
PixelSamples == FloatSamples \cup {NumOffset + 1, NumOffset + 6}
SerialSamples == {SerialByte, SerialByte + 1}

\* the document with serial sn, value f[k] in field k, in schema order
NumberFields(f) == Flatten([i \in 1..12 |-> <<i + 2, KindValue, f[i + 2]>>])

DocOf(sn, f) ==
    <<K_configVersion, KindString, V_1_0>>
        \o <<K_serial, KindString, sn>> \o NumberFields(f)

\* the same fields, last field first
Reversed(doc) ==
    Flatten([j \in 1..FieldCount(doc) |->
                SubSeq(doc, 3 * (FieldCount(doc) - j) + 1,
                            3 * (FieldCount(doc) - j) + 3)])

\* pitch, slope, center, DPI, screenW, screenH, and one number for the six
\* fields the record does not hold
FieldValues ==
    { [k \in ValueKeys |->
         IF k = K_pitch THEN v[1]
         ELSE IF k = K_slope THEN v[2]
         ELSE IF k = K_center THEN v[3]
         ELSE IF k = K_DPI THEN v[4]
         ELSE IF k = K_screenW THEN v[5]
         ELSE IF k = K_screenH THEN v[6]
         ELSE v[7]] :
      v \in FloatSamples \X FloatSamples \X FloatSamples \X FloatSamples
                \X PixelSamples \X PixelSamples \X FloatSamples }

DecodeDocs ==
    { DocOf(sn, f) : sn \in SerialSamples, f \in FieldValues }
    \cup { Reversed(DocOf(sn, f)) : sn \in SerialSamples, f \in FieldValues }

InitDecode ==
    /\ pc = "g_ret"
    /\ cur = 1
    /\ cand = ConfirmCandidate
    /\ glasses = <<>>
    /\ handle = {}
    /\ addr = 0
    /\ phase = ""
    /\ ret_buf = <<>>
    /\ buf = <<>>
    /\ count = 0
    /\ payload = <<>>
    /\ json_size = 0
    /\ json = <<>>
    /\ json_len = 0
    /\ slice0 = 0
    /\ \E doc \in DecodeDocs : ret = RetOk(doc)
    /\ channel = <<>>
    /\ inflight = <<>>
    /\ frame = RequestFrame(0)
    /\ nframes = <<1>>
    /\ reply = <<>>
    /\ failed = "none"
    /\ log = <<>>

NextDecode ==
    \/ decode

SpecDecode == InitDecode /\ [][NextDecode]_vars

(***************************************************************************)
(* The loop of get_json_string with some four megabytes assembled: the     *)
(* state at `while json.len() < json_size` for lengths around 65535 and    *)
(* 65536 pages.  The bytes assembled so far are left out of json; json_len *)
(* is their number.                                                        *)
(***************************************************************************)
OverflowPages == {65533, 65534, 65535, 65536, 65537, 131071}

\* json.len(): so many whole pages, and with 63 bytes more
OverflowLengths == { p * PageSize + r : p \in OverflowPages, r \in {0, PageSize - 1} }

\* how much the declared length is ahead of json.len()
OverflowAhead == {1, PageSize + 1, 2 * PageSize + 1}

OverflowCandidates ==
    { Candidate(RealDevice(DocLong, Len(DocLong), 2), t, "none") : t \in BOOLEAN }

InitOverflow ==
    /\ pc = "loop"
    /\ cur = 1
    /\ cand \in OverflowCandidates
    /\ glasses = <<>>
    /\ handle = {1}
    /\ addr = 0
    /\ phase = "first"
    /\ ret_buf = <<>>
    /\ buf = <<>>
    /\ count = FrameSize
    /\ payload = <<>>
    /\ json_len \in OverflowLengths
    /\ \E d \in OverflowAhead : json_size = json_len + d
    /\ json = <<>>
    /\ slice0 = json_len
    /\ ret = NoRet
    /\ channel = <<>>
    /\ inflight = <<>>
    /\ frame = RequestFrame(0)
    /\ nframes = <<1>>
    /\ reply = <<>>
    /\ failed = "none"
    /\ log = <<>>

NextOverflow ==
    \/ loop_more
    \/ loop_overflow_panic
    \/ loop_overflow_wrap
    \/ deliver
    \/ hid_multiread_some
    \/ hid_multiread_none
    \/ send_full
    \/ count_ok
    \/ confirm_fail
    \/ confirm_ok
    \/ append

SpecOverflow == InitOverflow /\ [][NextOverflow]_vars

(***************************************************************************)
(* Claims                                                                  *)
(***************************************************************************)

\* the response carries more than a header and its header names address a
EchoesAddress(a, b) ==
    /\ Len(b) > 4
    /\ b[1] = 0
    /\ b[2] = 0
    /\ b[3] = a \div 256
    /\ b[4] = a % 256

\* C1: for every page address and every response hid_query has accumulated,
\* the transaction succeeds only if the response is longer than 4 bytes and
\* starts with [0, 0, a>>8, a&0xFF], and then returns the rest; in every
\* other case, the bare header included, it fails with the confirmation
\* error (hid::Error::Read) and returns no payload.
C1_ConfirmationDecides ==
    [][ (pc = "confirm" /\ pc' # "confirm") =>
          IF EchoesAddress(addr, buf)
          THEN /\ pc' \in {"length", "append"}
               /\ payload' = SubSeq(buf, 5, Len(buf))
               /\ failed' = "none"
          ELSE /\ pc' = "g_ret"
               /\ ret' = RetErr(HidErr("Read"))
               /\ failed' = "confirm"
               /\ payload' = <<>> ]_vars

\* C1 witness: a transaction for the highest address has been confirmed
C1_Witness ==
    /\ pc = "append"
    /\ addr = 65535
    /\ payload = <<0, 0, 0, 5, 65>>

\* the start of page k's slice in the document
RECURSIVE SliceStart(_, _)
SliceStart(dev, k) ==
    IF k = 0 THEN 0
    ELSE IF k = 1 THEN Len(dev.pages[1]) - 4
    ELSE SliceStart(dev, k - 1) + Len(dev.pages[k])

\* every page after page 0 is the one the code asks for when it has
\* assembled the document up to that page's start, and is not empty
PagesAligned(dev) ==
    \A k \in 1..(Len(dev.pages) - 1) :
        /\ SliceStart(dev, k) \div 64 + 1 = k
        /\ Len(dev.pages[k + 1]) > 0

\* C2 as stated: whatever the split points, get_json_string returns text
\* byte-identical to the document the stub serves.
C2_RoundTripAnySplit ==
    pc = "g_ret" => (ret.ok /\ ret.str = cand.dev.doc)

\* C2 amended: when every page k >= 1 starts at a document offset o with
\* floor(o / 64) + 1 = k and holds at least one byte, get_json_string returns
\* text byte-identical to the document.
C2_RoundTripAligned ==
    (pc = "g_ret" /\ PagesAligned(cand.dev)) => (ret.ok /\ ret.str = cand.dev.doc)

\* C2 witness: the 1000-byte document split at 50, 64, 130 has been returned
C2_Witness ==
    /\ pc = "g_ret"
    /\ ret.ok
    /\ Len(ret.str) = 1000
    /\ Len(cand.dev.pages[1]) = 54
    /\ PagesAligned(cand.dev)
    /\ nframes[1] > 3


\* findall is inside get_json_string or json_to_glass for candidate cur
Processing == pc \notin {"init", "find", "done", "panic"}

\* hid::init() succeeded in this run
InitSucceeded == pc # "init" /\ ~(Len(log) = 1 /\ log[1].failed = "init")

\* C3 as stated: when transport initialisation succeeded there is exactly one
\* outcome per candidate, in candidate order, and whatever fails on one
\* candidate, the candidates after it are still processed and recorded: at
\* any time every candidate the iterator has yielded has its outcome, except
\* the one being processed.
C3_OneOutcomePerCandidate ==
    InitSucceeded =>
        /\ Len(glasses) = IF Processing THEN cur - 1 ELSE cur
        /\ \A i \in 1..Len(log) : log[i].cand = i

\* C4 as stated: in every interleaving of the device's reports with the
\* host's reads, a confirmed transaction returns exactly the device's answer
\* to that request without its 4-byte header: nothing left over from an
\* earlier transaction is in it and no byte of the answer is missing.
C4_PayloadIsTheAnswer ==
    pc \in {"length", "append"} => payload = SubSeq(reply, 5, Len(reply))

\* C5: a further page is asked for only while fewer than N bytes are
\* assembled; when the loop ends the buffer is cut to its first N bytes, has
\* exactly N bytes, and is what a successful call returns; when N is 0 or at
\* most the page-0 slice, page 0 is the only page requested, and N = 0 gives
\* the empty string.
C5_ExactlyDeclaredLength ==
    /\ []( (phase = "more" /\ pc \in {"drain", "send", "count", "read", "confirm", "append"})
             => Len(json) < json_size )
    /\ []( (phase = "first" /\ pc \in {"loop", "utf8"}) => nframes[cur] = 1 )
    /\ []( (pc = "utf8" /\ json_size = 0) => json = <<>> )
    /\ [][ (pc = "loop" /\ pc' # "loop" /\ json_size <= Len(json))
             => /\ pc' = "utf8"
                /\ nframes' = nframes
                /\ Len(json') = json_size
                /\ json' = SubSeq(json, 1, json_size) ]_vars
    /\ [][ (pc = "utf8" /\ pc' = "g_ret" /\ ret'.ok)
             => (ret'.str = json /\ Len(ret'.str) = json_size) ]_vars

\* C5 witness: a document longer than the page-0 slice has been assembled
\* from two pages and cut to its declared length
C5_Witness ==
    /\ pc = "utf8"
    /\ phase = "more"
    /\ nframes[cur] = 2
    /\ json_size = Len(DocLong)
    /\ json = DocLong

\* the steps of a page transaction that can fail
TransactionSteps == {"drain", "send", "count", "read", "confirm"}

\* the message of the error each failing step returns
StepError(step) == IF step \in {"send", "count"} THEN "Write" ELSE "Read"

\* C6: once a page transaction has failed for a candidate, no request frame
\* is written to that candidate's device again (so the request is not sent
\* a second time), and the failure is the candidate's recorded outcome.
C6_NoRetry ==
    /\ [][ \A i \in 1..Len(nframes) :
             (i < cur \/ failed # "none") => nframes'[i] = nframes[i] ]_vars
    /\ []( \A i \in 1..Len(log) :
             log[i].failed \in TransactionSteps
                => glasses[i] = [tag |-> "HIDError",
                                 msg |-> [what |-> StepError(log[i].failed),
                                          arg |-> NoArg]] )

\* C6 witness: the first candidate's second transaction failed its
\* confirmation, that is its outcome, and the next candidate is being read
C6_Witness ==
    /\ Len(log) = 1
    /\ log[1].failed = "confirm"
    /\ nframes[1] = 2
    /\ cur = 2
    /\ pc = "read"

\* the text has the field k, once, as a string or as a { value } object
HasField(text, k, kind) ==
    /\ \E j \in 1..(Len(text) \div 3) : text[3 * j - 2] = k /\ text[3 * j - 1] = kind
    /\ \A j1, j2 \in 1..(Len(text) \div 3) :
          (text[3 * j1 - 2] = k /\ text[3 * j2 - 2] = k) => j1 = j2

\* the text is a document with every field of the schema, each of its type
MatchesSchema(text) ==
    /\ Len(text) > 0
    /\ Len(text) % 3 = 0
    /\ \A j \in 1..(Len(text) \div 3) : text[3 * j - 1] \in {1, 2}
    /\ HasField(text, 1, 1)
    /\ HasField(text, 2, 1)
    /\ \A k \in 3..14 : HasField(text, k, 2)

\* the version the text declares
VersionOf(text) == text[3 * (CHOOSE j \in 1..(Len(text) \div 3) : text[3 * j - 2] = 1)]

\* the text is a document without any serial field
LacksSerial(text) ==
    /\ Len(text) > 0
    /\ Len(text) % 3 = 0
    /\ \A j \in 1..(Len(text) \div 3) : text[3 * j - 2] # 2

GlassFields == {"serial", "pitch", "slope", "center", "dpi", "screen_w", "screen_h"}

\* C7: a candidate's outcome is a record only if every step succeeded for
\* it, the text matches the schema and the version is "1.0", and then the
\* record has all its fields; otherwise the outcome is an error that carries
\* no record.  A document without serial yields the schema-parse error.
C7_RecordOnlyFromCompleteSuccess ==
    \A i \in 1..Len(glasses) :
        /\ glasses[i].tag = "Ok" <=>
              /\ log[i].failed = "none"
              /\ MatchesSchema(log[i].text)
              /\ VersionOf(log[i].text) = 10
        /\ glasses[i].tag = "Ok" =>
              /\ DOMAIN glasses[i] = {"tag", "glass"}
              /\ DOMAIN glasses[i].glass = GlassFields
        /\ glasses[i].tag # "Ok" =>
              /\ glasses[i].tag \in {"HIDError", "ParseError"}
              /\ DOMAIN glasses[i] = {"tag", "msg"}
        /\ (log[i].failed = "none" /\ LacksSerial(log[i].text)) =>
              glasses[i] = [tag |-> "ParseError",
                            msg |-> [what |-> "Error parsing JSON", arg |-> NoArg]]

\* C7 witness: the first candidate's document had no serial and got the
\* schema-parse error, the second candidate got its record
C7_Witness ==
    /\ Len(glasses) = 2
    /\ log[1].failed = "none"
    /\ LacksSerial(log[1].text)
    /\ glasses[1].tag = "ParseError"
    /\ glasses[2].tag = "Ok"

\* the outcomes of the documents that match the schema but declare a
\* version other than "1.0"
OtherVersion(i) ==
    /\ log[i].failed = "none"
    /\ MatchesSchema(log[i].text)
    /\ VersionOf(log[i].text) # 10

\* the kind (the variant of Error) of the schema-parse error
SchemaErrorKind == "ParseError"

C9_FailureTaggedByStep ==
    \A i \in 1..Len(glasses) :
        /\ log[i].failed = "utf8" => glasses[i].tag = "ParseError"
        /\ log[i].failed \in {"init", "serial", "open", "blocking"} \cup TransactionSteps
              => glasses[i].tag = "HIDError"
        /\ (log[i].failed = "none" /\ glasses[i].tag # "Ok")
              => glasses[i].tag = "ParseError"

\* C10: when the control write reports fewer bytes than the 68 of the frame,
\* hid_query fails with the write-mismatch error (hid::Error::Write) at once:
\* no read follows and the frame is not written again.
C10_ShortWriteFails ==
    /\ [][ (pc = "count" /\ count < 68 /\ pc' # "count")
             => /\ pc' = "g_ret"
                /\ ret' = RetErr(HidErr("Write"))
                /\ failed' = "count"
                /\ nframes' = nframes
                /\ channel' = <<>> ]_vars
    /\ [][ failed = "count"
             => (pc = "g_ret" /\ pc' = "find" /\ nframes' = nframes
                   /\ glasses' = Append(glasses, HIDError(Msg("Write", NoArg)))) ]_vars

\* C10 witness: the write of a request in the loop came up one byte short
\* and the call has returned the error
C10_Witness ==
    /\ pc = "g_ret"
    /\ failed = "count"
    /\ nframes[cur] = 2
    /\ Len(frame) = 68
    /\ ret.err.kind = "Write"

\* C11: if transport initialisation fails, findall returns a single overall
\* transport failure and no per-candidate result: no candidate is enumerated,
\* no handle is opened and no request is written.
C11_InitFailureIsTheOnlyOutcome ==
    /\ [][ (pc = "init" /\ pc' # "find")
             => /\ pc' = "done"
                /\ glasses' = << [tag |-> "HIDError",
                                  msg |-> [what |-> "Initialized", arg |-> NoArg]] >> ]_vars
    /\ []( (Len(log) >= 1 /\ log[1].failed = "init")
             => /\ pc = "done"
                /\ Len(glasses) = 1
                /\ glasses[1].tag = "HIDError"
                /\ cur = 0
                /\ cand = NoCandidate
                /\ handle = {}
                /\ nframes = <<>>
                /\ frame = <<>> )

\* C11 witness: hid::init() failed and findall has returned
C11_Witness ==
    /\ pc = "done"
    /\ Len(log) = 1
    /\ log[1].failed = "init"
    /\ glasses[1].tag = "HIDError"

\* C12: for every page address a in 0..65535 the request frame hid_query
\* writes is exactly 68 bytes: bytes 0 and 1 are zero, byte 2 is a>>8, byte 3
\* is a&0xFF and the remaining 64 bytes are zero.
C12_RequestFrameLayout ==
    [][ (pc = "send" /\ pc' # "send")
          => /\ addr \in 0..65535
             /\ nframes'[cur] = nframes[cur] + 1
             /\ Len(frame') = 68
             /\ frame'[1] = 0
             /\ frame'[2] = 0
             /\ frame'[3] = addr \div 256
             /\ frame'[4] = addr % 256
             /\ \A i \in 5..68 : frame'[i] = 0 ]_vars

\* C12 witness: the frame for the highest address has been written
C12_Witness ==
    /\ pc = "count"
    /\ addr = 65535
    /\ count = 68
    /\ Len(frame) = 68
    /\ frame[3] = 255
    /\ frame[4] = 255

\* the value of field k of the text (a number in halves, or a string's byte)
ValueOf(text, k) ==
    text[3 * (CHOOSE j \in 1..(Len(text) \div 3) : text[3 * j - 2] = k)]

\* the number of field k, in halves
NumberOf(text, k) == ValueOf(text, k) - 64

\* a number in halves truncated toward zero
TruncToZero(h) == IF h >= 0 THEN h \div 2 ELSE 0 - ((0 - h) \div 2)

\* the outcomes of the documents that match the schema with version "1.0"
Version1(i) ==
    /\ log[i].failed = "none"
    /\ MatchesSchema(log[i].text)
    /\ VersionOf(log[i].text) = 10

Pixels(h) == IF h < 0 THEN 0 ELSE TruncToZero(h)

C14_AddressIsFloorPlusOne ==
    /\ (phase = "more" /\ pc \in {"drain", "send", "count", "read", "confirm"})
          => addr = json_len \div 64 + 1
    /\ ~(pc = "panic" /\ failed = "overflow")

\* a request frame is written in this step
Writes == Len(nframes') = Len(nframes) /\ nframes' # nframes

\* C15: within every page transaction the steps come in the order drain,
\* write, response read, validate; a request frame is written only after a
\* drain that ended with a read reporting no data ready; and if a read of
\* the drain fails, the transaction fails with that error and no request
\* frame is written.
C15_DrainThenWrite ==
    /\ [][ Writes => (pc = "send" /\ pc' \in {"count", "g_ret"}) ]_vars
    /\ [][ (pc' = "drain" /\ pc # "drain") => pc \in {"blocking", "loop"} ]_vars
    /\ [][ (pc' = "send" /\ pc # "send") => (pc = "drain" /\ channel = <<>>) ]_vars
    /\ [][ (pc' = "count" /\ pc # "count") => pc = "send" ]_vars
    /\ [][ (pc' = "read" /\ pc # "read") => pc = "count" ]_vars
    /\ [][ (pc' = "confirm" /\ pc # "confirm") => pc = "read" ]_vars
    /\ [][ (pc = "drain" /\ pc' \notin {"drain", "send"})
             => /\ pc' = "g_ret"
                /\ ret' = RetErr(HidErr("Read"))
                /\ failed' = "drain"
                /\ nframes' = nframes ]_vars
    /\ [][ failed = "drain"
             => (pc = "g_ret" /\ pc' = "find" /\ nframes' = nframes
                   /\ glasses' = Append(glasses, HIDError(Msg("Read", NoArg)))) ]_vars

\* C15 witness: the drain before the second request of a candidate failed on
\* a read, and the call has returned the error with one frame written
C15_Witness ==
    /\ pc = "g_ret"
    /\ failed = "drain"
    /\ nframes[cur] = 1
    /\ ret.err.kind = "Read"

\* a read of hid_multiread returns Some(count) in this step
ReadsSome ==
    /\ pc \in {"drain", "read"}
    /\ channel # <<>>
    /\ channel' = Tail(channel)
    /\ handle' = handle

\* C16: hid_multiread stops only when a read reports no data ready or fails;
\* a read that returns a chunk, of zero bytes too, does not end it and the
\* chunk is put behind what was read before; the accumulation starts empty
\* and is the value returned; the drain ends with the channel empty.
C16_StopsOnNoDataOnly ==
    /\ [][ (pc \in {"drain", "read"} /\ pc' # pc)
             => \/ (channel = <<>> /\ pc' = (IF pc = "drain" THEN "send" ELSE "confirm"))
                \/ (pc' = "g_ret" /\ failed' = pc /\ ret' = RetErr(HidErr("Read"))) ]_vars
    /\ [][ ReadsSome => (pc' = pc /\ ret_buf' = ret_buf \o channel[1]) ]_vars
    /\ [][ (pc \in {"drain", "read"} /\ pc' = pc /\ ~ReadsSome) => ret_buf' = ret_buf ]_vars
    /\ [][ (pc' \in {"drain", "read"} /\ pc' # pc) => ret_buf' = <<>> ]_vars
    /\ [][ (pc = "read" /\ pc' = "confirm") => buf' = ret_buf ]_vars
    /\ [][ (pc = "drain" /\ pc' = "send") => channel = <<>> ]_vars

\* C16 witness: the first report of a response has been read, and a report
\* of zero bytes is ahead of the last report of the response
C16_Witness ==
    /\ pc = "read"
    /\ Len(ret_buf) = 64
    /\ Len(channel) = 2
    /\ channel[1] = <<>>
    /\ Len(channel[2]) = 4

\* C17: candidates are processed one after another: at most one handle is
\* open, the current candidate's; a frame is written only on that handle and
\* only when no response is being read or waits to be used; the handle is
\* released when get_json_string returns, on every path, so before the
\* outcome is recorded and before the next candidate's handle is opened.
C17_OneHandleOneRequest ==
    /\ []( Cardinality(handle) <= 1 /\ handle \subseteq {cur} )
    /\ []( pc \in {"init", "find", "serial", "open", "g_ret", "done", "panic"}
             => handle = {} )
    /\ [][ (handle' # handle /\ handle' # {})
             => (pc = "open" /\ handle = {} /\ handle' = {cur}
                   /\ Len(glasses) = cur - 1) ]_vars
    /\ [][ Writes
             => (handle = {cur} /\ pc = "send" /\ ret_buf = <<>> /\ payload = <<>>) ]_vars
    /\ [][ Len(glasses') > Len(glasses) => (handle = {} /\ handle' = {}) ]_vars

\* C17 witness: the first candidate's record is in, its handle is gone and
\* the second candidate's handle is the one open
C17_Witness ==
    /\ pc = "read"
    /\ cur = 2
    /\ handle = {2}
    /\ Len(glasses) = 1
    /\ glasses[1].tag = "Ok"

\* C18 as stated: whatever page-0 response passes the confirmation, one with
\* a payload of 1, 2 or 3 bytes included, get_json_string never faults while
\* it reads the 4 length bytes or takes the first slice.
C18_NoFaultOnShortPage0 ==
    /\ pc = "length" => Len(payload) >= 4
    /\ ~(pc = "panic" /\ failed = "length")

\* C19: every successful transaction of the loop appends at least one byte,
\* so the loop makes at most N minus the page-0 slice's length transactions,
\* whatever the sizes of the payloads.
C19_LoopBounded ==
    /\ [][ (pc = "append" /\ pc' # "append")
             => (pc' = "loop" /\ Len(json') >= Len(json) + 1
                   /\ json_len' >= json_len + 1) ]_vars
    /\ []( (phase = "more" /\ cur >= 1) => nframes[cur] - 1 <= json_size - slice0 )
    /\ []( pc = "utf8" => json_len = json_size )

\* C19 witness: a document of 65 bytes has been assembled a byte a page, in
\* as many transactions as bytes were missing after page 0
C19_Witness ==
    /\ pc = "utf8"
    /\ json_size = 65
    /\ slice0 = 1
    /\ nframes[cur] - 1 = json_size - slice0

====
